---- MODULE Spec2Model ----
(***************************************************************************)
(* Job-control core of rlsh.                                               *)
(*   Spec       the shared job table (src/shell/job_list.rs) driven by     *)
(*              arbitrary sequences of add and delete calls, one call one  *)
(*              step.                                                      *)
(*   SpecShell  the running shell (src/lib.rs): App::run, run_command and  *)
(*              the detached monitors, with the table mutex as a variable. *)
(*   SpecLaunch run_command handed a job list in which a foreground job    *)
(*              may already be registered.                                 *)
(*   FairShell  SpecShell under fair scheduling of the tasks.              *)
(*   SpecConc   the table operations run statement by statement by         *)
(*              concurrent tasks that take the mutex first.                *)
(*   SpecFixed  the fixed-capacity job list of src/src/job_list.rs under   *)
(*              any sequence of add, delete and set_state calls.           *)
(*   SpecParse  App::parse applied to every line of a few words.           *)
(***************************************************************************)
EXTENDS Integers, Sequences, FiniteSets, TLC

\* ---------------------------------------------------------------- bounds
\* Largest job id the model lets add allocate (usize is unbounded here).
MaxJid == 3
\* Number of child processes the shell may spawn in one run.
MaxProcs == 2
\* Number of tasks that call the table operations concurrently.
NumTasks == 2

\* ------------------------------------------------------------ data types
\* enum State { BG, FG }
BG == "BG"
FG == "FG"
State == {BG, FG}

\* Option<T>: None is the empty sequence, Some(x) the one-element sequence.
None == <<>>
Some(x) == <<x>>

\* Result<usize, &'static str>
Ok(j) == [tag |-> "Ok", jid |-> j, err |-> ""]
Err(e) == [tag |-> "Err", jid |-> 0, err |-> e]

ErrForeground == "Can't add a foreground job if a foreground job already exists"
ErrDuplicate == "Inserted job with duplicate jid"

\* struct Job { pid, state, cmdline }
Job(pid, state, cmdline) == [pid |-> pid, state |-> state, cmdline |-> cmdline]

\* Inputs of the callers: the (pid, cmdline) pairs handed to add, as in
\* tests::adding_jobs, and the job ids handed to delete.
Launched == {<<1, "one">>, <<2, "two">>}
Jids == 0..(MaxJid + 1)

\* struct JobData { jobs: HashMap<usize, Job>, fg_job, max_jid }
JobData(j, f, m) == [jobs |-> j, fg_job |-> f, max_jid |-> m]

\* JobList::new
JobList_new == JobData(<<>>, None, None)

\* ------------------------------------------------------- HashMap helpers
\* HashMap::insert: the map with key k bound to v (overwriting).
insert(m, k, v) == [x \in (DOMAIN m) \cup {k} |-> IF x = k THEN v ELSE m[x]]

\* HashMap::remove: the map without key k.
remove(m, k) == [x \in (DOMAIN m) \ {k} |-> m[x]]

\* Variant of keys_max: reduce(cmp::min) in place of reduce(cmp::max).
keys_min(m) ==
    IF DOMAIN m = {} THEN None
    ELSE Some(CHOOSE x \in DOMAIN m : \A y \in DOMAIN m : x <= y)

\* jobs.keys().reduce(cmp::max)
keys_max(m) ==
    IF DOMAIN m = {} THEN None
    ELSE Some(CHOOSE x \in DOMAIN m : \A y \in DOMAIN m : y <= x)

\* HashMap::get
get(m, k) == IF k \in DOMAIN m THEN Some(m[k]) ELSE None

\* --------------------------------------------------------------- JobList
\* "Calculate jid of new job"
new_jid(max_jid) == IF max_jid = None THEN 0 ELSE max_jid[1] + 1

\* Variant of add: a Foreground add does not look at the existing fg_job.
add_no_fg_check(jl, pid, state, cmdline) ==
    LET jid == new_jid(jl.max_jid)
        fg == IF state = FG THEN Some(jid) ELSE jl.fg_job
        after == JobData(insert(jl.jobs, jid, Job(pid, state, cmdline)),
                         fg, Some(jid))
    IN  IF jid \in DOMAIN jl.jobs
        THEN [jl |-> after, ret |-> Err(ErrDuplicate)]
        ELSE [jl |-> after, ret |-> Ok(jid)]

\* Variant of add: max_jid is updated before the foreground check.
add_max_first(jl, pid, state, cmdline) ==
    LET jid == new_jid(jl.max_jid) IN
    IF state = FG /\ jl.fg_job # None
    THEN [jl |-> JobData(jl.jobs, jl.fg_job, Some(jid)),
          ret |-> Err(ErrForeground)]
    ELSE LET fg == IF state = FG THEN Some(jid) ELSE jl.fg_job
             after == JobData(insert(jl.jobs, jid, Job(pid, state, cmdline)),
                              fg, Some(jid))
         IN  IF jid \in DOMAIN jl.jobs
             THEN [jl |-> after, ret |-> Err(ErrDuplicate)]
             ELSE [jl |-> after, ret |-> Ok(jid)]

\* Variant of add: max_jid is not updated.
add_no_max_update(jl, pid, state, cmdline) ==
    LET jid == new_jid(jl.max_jid) IN
    IF state = FG /\ jl.fg_job # None
    THEN [jl |-> jl, ret |-> Err(ErrForeground)]
    ELSE LET fg == IF state = FG THEN Some(jid) ELSE jl.fg_job
             after == JobData(insert(jl.jobs, jid, Job(pid, state, cmdline)),
                              fg, jl.max_jid)
         IN  IF jid \in DOMAIN jl.jobs
             THEN [jl |-> after, ret |-> Err(ErrDuplicate)]
             ELSE [jl |-> after, ret |-> Ok(jid)]

\* Variant of add: the new jid is the number of jobs in the table.
add_len_jid(jl, pid, state, cmdline) ==
    LET jid == Cardinality(DOMAIN jl.jobs) IN
    IF state = FG /\ jl.fg_job # None
    THEN [jl |-> jl, ret |-> Err(ErrForeground)]
    ELSE LET fg == IF state = FG THEN Some(jid) ELSE jl.fg_job
             after == JobData(insert(jl.jobs, jid, Job(pid, state, cmdline)),
                              fg, Some(jid))
         IN  IF jid \in DOMAIN jl.jobs
             THEN [jl |-> after, ret |-> Err(ErrDuplicate)]
             ELSE [jl |-> after, ret |-> Ok(jid)]

\* JobList::add: the table after the call and the value returned.
add(jl, pid, state, cmdline) ==
    LET jid == new_jid(jl.max_jid) IN
    IF state = FG /\ jl.fg_job # None
    THEN [jl |-> jl, ret |-> Err(ErrForeground)]
    ELSE LET fg == IF state = FG THEN Some(jid) ELSE jl.fg_job
             after == JobData(insert(jl.jobs, jid, Job(pid, state, cmdline)),
                              fg, Some(jid))
         IN  IF jid \in DOMAIN jl.jobs
             THEN [jl |-> after, ret |-> Err(ErrDuplicate)]
             ELSE [jl |-> after, ret |-> Ok(jid)]

\* Variant of delete: max_jid is never recomputed.
delete_keep_max(jl, jid) ==
    LET remove_status == get(jl.jobs, jid)
        removed == remove(jl.jobs, jid)
        f == IF jl.fg_job # None /\ jl.fg_job[1] = jid
             THEN None ELSE jl.fg_job
    IN  [jl |-> JobData(removed, f, jl.max_jid), ret |-> remove_status # None]

\* Variant of delete: the maximum key is taken before the job is removed.
delete_max_before_remove(jl, jid) ==
    LET remove_status == get(jl.jobs, jid)
        removed == remove(jl.jobs, jid)
        m == IF jl.max_jid # None /\ jl.max_jid[1] = jid
             THEN keys_max(jl.jobs) ELSE jl.max_jid
        f == IF jl.fg_job # None /\ jl.fg_job[1] = jid
             THEN None ELSE jl.fg_job
    IN  [jl |-> JobData(removed, f, m), ret |-> remove_status # None]

\* Variant of delete: returns remove_status.is_none().
delete_is_none(jl, jid) ==
    LET remove_status == get(jl.jobs, jid)
        removed == remove(jl.jobs, jid)
        m == IF jl.max_jid # None /\ jl.max_jid[1] = jid
             THEN keys_max(removed) ELSE jl.max_jid
        f == IF jl.fg_job # None /\ jl.fg_job[1] = jid
             THEN None ELSE jl.fg_job
    IN  [jl |-> JobData(removed, f, m), ret |-> remove_status = None]

\* Variant of delete: fg_job is left alone.
delete_no_fg_clear(jl, jid) ==
    LET remove_status == get(jl.jobs, jid)
        removed == remove(jl.jobs, jid)
        m == IF jl.max_jid # None /\ jl.max_jid[1] = jid
             THEN keys_max(removed) ELSE jl.max_jid
    IN  [jl |-> JobData(removed, jl.fg_job, m), ret |-> remove_status # None]

\* Variant of delete: fg_job is cleared whatever jid is.
delete_clear_fg_always(jl, jid) ==
    LET remove_status == get(jl.jobs, jid)
        removed == remove(jl.jobs, jid)
        m == IF jl.max_jid # None /\ jl.max_jid[1] = jid
             THEN keys_max(removed) ELSE jl.max_jid
    IN  [jl |-> JobData(removed, None, m), ret |-> remove_status # None]

\* JobList::delete: the table after the call and the value returned.
delete(jl, jid) ==
    LET remove_status == get(jl.jobs, jid)
        removed == remove(jl.jobs, jid)
        m == IF jl.max_jid # None /\ jl.max_jid[1] = jid
             THEN keys_max(removed) ELSE jl.max_jid
        f == IF jl.fg_job # None /\ jl.fg_job[1] = jid
             THEN None ELSE jl.fg_job
    IN  [jl |-> JobData(removed, f, m), ret |-> remove_status # None]

\* JobList::get_state / get_pid / get_cmdline
get_state(jl, jid) ==
    IF get(jl.jobs, jid) = None THEN None ELSE Some(jl.jobs[jid].state)
get_pid(jl, jid) ==
    IF get(jl.jobs, jid) = None THEN None ELSE Some(jl.jobs[jid].pid)
get_cmdline(jl, jid) ==
    IF get(jl.jobs, jid) = None THEN None ELSE Some(jl.jobs[jid].cmdline)

\* ----------------------------------------------------------------- state
VARIABLES
    jobs,       \* JobData.jobs
    fg_job,     \* JobData.fg_job
    max_jid,    \* JobData.max_jid
    last,       \* the latest call: operation, arguments, result, table before
    prev,       \* summary of the call before the latest one
    lock,       \* holder of the Mutex<JobData>, None when it is free
    main,       \* the main task: App::run and the run_command it awaits
    child,      \* per spawned process: the process, its job, its monitor
    task        \* per calling task: the table operation it is inside

tableVars == <<jobs, fg_job, max_jid>>
callVars == <<last, prev>>
otherVars == <<last, prev, task>>
shellVars == <<lock, main, child>>
vars == <<jobs, fg_job, max_jid, last, prev, lock, main, child, task>>

\* The table as one value.
table == JobData(jobs, fg_job, max_jid)

NoCall == [op |-> "none", pid |-> 0, state |-> BG, cmdline |-> "", jid |-> 0,
           ret |-> Ok(0), found |-> FALSE, pre |-> JobList_new]

\* What is remembered of a call once another call has followed it.
Summary(c) == [op |-> c.op, jid |-> c.jid, ret |-> c.ret,
               found |-> c.found, premax |-> c.pre.max_jid,
               predom |-> DOMAIN c.pre.jobs]

Init ==
    /\ jobs = JobList_new.jobs
    /\ fg_job = JobList_new.fg_job
    /\ max_jid = JobList_new.max_jid
    /\ last = NoCall
    /\ prev = Summary(NoCall)
    /\ lock = None
    /\ main = <<>>
    /\ child = <<>>
    /\ task = <<>>

\* A task calls job_list.add(pid, state, cmdline).
Add ==
    \E l \in Launched, state \in State :
        LET pid == l[1]
            cmdline == l[2]
            r == add(table, pid, state, cmdline)
        IN
        /\ new_jid(max_jid) <= MaxJid
        /\ jobs' = r.jl.jobs
        /\ fg_job' = r.jl.fg_job
        /\ max_jid' = r.jl.max_jid
        /\ last' = [op |-> "add", pid |-> pid, state |-> state,
                    cmdline |-> cmdline, jid |-> 0, ret |-> r.ret,
                    found |-> FALSE, pre |-> table]
        /\ prev' = Summary(last)
        /\ UNCHANGED <<shellVars, task>>

\* A task calls job_list.delete(jid).
Delete ==
    \E jid \in Jids :
        LET r == delete(table, jid) IN
        /\ jobs' = r.jl.jobs
        /\ fg_job' = r.jl.fg_job
        /\ max_jid' = r.jl.max_jid
        /\ last' = [op |-> "delete", pid |-> 0, state |-> BG, cmdline |-> "",
                    jid |-> jid, ret |-> Ok(0), found |-> r.ret,
                    pre |-> table]
        /\ prev' = Summary(last)
        /\ UNCHANGED <<shellVars, task>>

Next == Add \/ Delete

Spec == Init /\ [][Next]_vars

\* ------------------------------------------------- the read-only operations
\* The operations that read one job.
Lookups == {"get_state", "get_pid", "get_cmdline"}

\* What a lookup returns on table jl.
lookup(op, jl, jid) ==
    CASE op = "get_state" -> get_state(jl, jid)
      [] op = "get_pid" -> get_pid(jl, jid)
      [] op = "get_cmdline" -> get_cmdline(jl, jid)

\* print_jobs: the rows written, one for each entry of jobs.
print_jobs(jl) ==
    {<<j, jl.jobs[j].pid, jl.jobs[j].state, jl.jobs[j].cmdline>> :
        j \in DOMAIN jl.jobs}

\* Variant of lookup_call: the job is taken out with jobs.remove(&jid)
\* to get an owned value instead of a borrow.
lookup_call_remove(op, jl, jid) ==
    [jl |-> JobData(remove(jl.jobs, jid), jl.fg_job, jl.max_jid),
     ret |-> lookup(op, jl, jid)]

\* A lookup as a call on the locked JobData: the table it leaves behind and
\* the value it returns.  jobs.get(&jid) borrows; nothing is assigned.
lookup_call(op, jl, jid) == [jl |-> jl, ret |-> lookup(op, jl, jid)]

\* print_jobs as a call on the locked JobData: jobs.iter() borrows.
print_call(jl) == [jl |-> jl, ret |-> print_jobs(jl)]

\* ------------------------------------------------------------- the shell
\* Child processes are numbered in spawn order; child.id() of process p is p.
Procs == 1..MaxProcs

\* Command lines typed at the prompt that parse into Executable::NonBuiltin:
\* the state parse derives from the trailing "&", the verbatim line and the
\* first word.
Commands == {[state |-> FG, cmdline |-> "one", command |-> "one"],
             [state |-> BG, cmdline |-> "two &", command |-> "two"]}

\* data.infile and data.outfile: the redirects the line may carry.
Redirects == {None, Some("file")}

\* What the operating system answers to the launcher: whether File::create
\* of the infile and of the outfile succeed, and whether spawn succeeds.
Answers == [in_ok : BOOLEAN, out_ok : BOOLEAN, spawn_ok : BOOLEAN]

\* What the launcher prints before it returns early.
NoReport == <<>>
ErrOpen == <<"Error opening file">>
Errored(command) == <<command, " errored">>

\* An open of a requested redirect fails.
open_fails(infile, outfile, os) ==
    \/ infile # None /\ ~os.in_ok
    \/ outfile # None /\ ~os.out_ok

\* Variant of launch: a failed open of the outfile is reported but the
\* launcher does not return.
launch_outfile_no_return(command, infile, outfile, os) ==
    IF infile # None /\ ~os.in_ok
    THEN [report |-> ErrOpen, spawned |-> FALSE]
    ELSE IF ~os.spawn_ok
    THEN [report |-> Errored(command), spawned |-> FALSE]
    ELSE [report |-> IF outfile # None /\ ~os.out_ok THEN ErrOpen
                     ELSE NoReport,
          spawned |-> TRUE]

\* Variant of launch: the result of spawn is unwrapped without a check.
launch_spawn_unchecked(command, infile, outfile, os) ==
    IF infile # None /\ ~os.in_ok
    THEN [report |-> ErrOpen, spawned |-> FALSE]
    ELSE IF outfile # None /\ ~os.out_ok
    THEN [report |-> ErrOpen, spawned |-> FALSE]
    ELSE [report |-> NoReport, spawned |-> TRUE]

\* run_command up to the match on spawn(): calculate the infile, calculate
\* the outfile, spawn.  The report printed and whether a child now exists.
launch(command, infile, outfile, os) ==
    IF infile # None /\ ~os.in_ok
    THEN [report |-> ErrOpen, spawned |-> FALSE]
    ELSE IF outfile # None /\ ~os.out_ok
    THEN [report |-> ErrOpen, spawned |-> FALSE]
    ELSE IF ~os.spawn_ok
    THEN [report |-> Errored(command), spawned |-> FALSE]
    ELSE [report |-> NoReport, spawned |-> TRUE]

\* Pid of a foreground job registered through another clone of the JobList.
ExtPid == 0

\* Tasks are numbered: the main task is 0, the monitor of process p is p.
MainTask == 0

\* Variant of can_lock: the table is entered without waiting for the mutex.
can_lock_always(l) == TRUE

\* arc.lock(): the mutex can be taken when nobody holds it.
can_lock(l) == l = None

\* Variant of unlock: the guard is kept alive after the call returns.
unlock_leak(holder) == Some(holder)

\* The MutexGuard is dropped when the table operation returns.
unlock(holder) == None

\* Variant of wait_ready: the child is polled (try_wait) instead of awaited.
wait_ready_poll(st) == TRUE

\* child.wait().await completes once the process has exited.
wait_ready(st) == st = "exited"

\* Variant of after_add: a Foreground job is handed to a detached monitor.
after_add_detach_fg(state, ret) ==
    IF ret.tag = "Ok" THEN "bg_lookup_lock" ELSE "kill"

\* Variant of after_add: a Background job is awaited by the launcher itself.
after_add_wait_bg(state, ret) ==
    IF ret.tag = "Ok" THEN "fg_wait" ELSE "kill"

\* Variant of after_add: a failed add returns without kill and wait.
after_add_no_kill(state, ret) ==
    IF ret.tag = "Ok"
    THEN IF state = FG THEN "fg_wait" ELSE "bg_lookup_lock"
    ELSE "prompt"

\* run_command, the match on the result of job_list.add: where the launcher
\* goes next.
after_add(state, ret) ==
    IF ret.tag = "Ok"
    THEN IF state = FG THEN "fg_wait" ELSE "bg_lookup_lock"
    ELSE "kill"

\* Variant of mon_next: the termination notice is printed before the delete.
mon_next_term_first(pc) ==
    CASE pc = "start" -> "wait"
      [] pc = "wait" -> "term"
      [] pc = "term" -> "del_lock"
      [] pc = "del_lock" -> "del"
      [] pc = "del" -> "done"

\* The body of the detached monitor task, statement after statement:
\* print the start notice, await the child, delete, print the termination.
mon_next(pc) ==
    CASE pc = "start" -> "wait"
      [] pc = "wait" -> "del_lock"
      [] pc = "del_lock" -> "del"
      [] pc = "del" -> "term"
      [] pc = "term" -> "done"

\* Variant of delete_arg: the monitor passes the pid where the jid belongs.
delete_arg_pid(pid, jid) == pid

\* job_list.delete(jid): the argument the monitor of a job passes.
delete_arg(pid, jid) == jid

\* Where the main task continues once it holds the lock.
locked_pc(pc) ==
    CASE pc = "add_lock" -> "add"
      [] pc = "fg_delete_lock" -> "fg_delete"
      [] pc = "bg_lookup_lock" -> "bg_lookup"
      [] pc = "jobs_lock" -> "jobs"

\* The main task between two commands.  fault is what went wrong in the
\* latest launch ("open", "spawn" or nothing) and out what it printed.
Idle(pc) == [pc |-> pc, cmd |-> "", cur |-> 0, state |-> BG, cmdline |-> "",
             command |-> "", fault |-> "", out |-> NoReport]

\* A process slot before its process is spawned.  The fields after mon
\* record what happened: the value the lookup of the command line returned,
\* whether the job's own row was in the table when each notice was printed,
\* the number of delete calls made for the job and their result.
NoChild ==
    [st |-> "none", state |-> BG, cmdline |-> "", jid |-> None,
     regfail |-> FALSE, mon |-> "none",
     lookup |-> None, start_row |-> None, term_row |-> None,
     dels |-> 0, delret |-> None]

\* The row of process p is in table jl under the id its add returned.
OwnRow(jl, c, p) ==
    /\ c.jid # None
    /\ c.jid[1] \in DOMAIN jl.jobs
    /\ jl.jobs[c.jid[1]].pid = p

\* The next process to spawn.
NextProc == CHOOSE p \in Procs :
                child[p].st = "none" /\ \A q \in Procs : q < p => child[q].st # "none"

\* App::run before the loop: an empty job list, no process.
InitShell ==
    /\ jobs = JobList_new.jobs
    /\ fg_job = JobList_new.fg_job
    /\ max_jid = JobList_new.max_jid
    /\ last = NoCall
    /\ prev = Summary(NoCall)
    /\ lock = None
    /\ main = Idle("prompt")
    /\ child = [p \in Procs |-> NoChild]
    /\ task = <<>>

\* run_command called with a job list that is empty or holds a foreground
\* job registered by another holder of the list.
InitLaunch ==
    /\ \E jl \in {JobList_new, add(JobList_new, ExtPid, FG, "ext").jl} :
          /\ jobs = jl.jobs
          /\ fg_job = jl.fg_job
          /\ max_jid = jl.max_jid
    /\ last = NoCall
    /\ prev = Summary(NoCall)
    /\ lock = None
    /\ main = Idle("prompt")
    /\ child = [p \in Procs |-> NoChild]
    /\ task = <<>>

\* read_line returns Ok(0): run returns.
ReadEOF ==
    /\ main.pc = "prompt"
    /\ main' = Idle("exited")
    /\ UNCHANGED <<tableVars, otherVars, lock, child>>

\* read_line returns a line and parse turns it into an Executable.
ReadLine ==
    /\ main.pc = "prompt"
    /\ \E cmd \in {"Exit", "Noop", "Jobs"} :
          main' = [Idle("eval") EXCEPT !.cmd = cmd]
    /\ UNCHANGED <<tableVars, otherVars, lock, child>>

\* read_line returns a line that parse turns into Executable::NonBuiltin.
ReadCommand ==
    /\ main.pc = "prompt"
    /\ \E c \in Commands :
          main' = [Idle("eval") EXCEPT !.cmd = "NonBuiltin",
                                       !.state = c.state,
                                       !.cmdline = c.cmdline,
                                       !.command = c.command]
    /\ UNCHANGED <<tableVars, otherVars, lock, child>>

\* eval of Executable::Exit returns false and run returns.
EvalExit ==
    /\ main.pc = "eval" /\ main.cmd = "Exit"
    /\ main' = Idle("exited")
    /\ UNCHANGED <<tableVars, otherVars, lock, child>>

\* eval of a command that does not touch the job list (Noop, ls, cd, ...).
EvalNoop ==
    /\ main.pc = "eval" /\ main.cmd = "Noop"
    /\ main' = Idle("prompt")
    /\ UNCHANGED <<tableVars, otherVars, lock, child>>

\* eval of Executable::Jobs calls list_jobs, which locks the table.
EvalJobs ==
    /\ main.pc = "eval" /\ main.cmd = "Jobs"
    /\ main' = [main EXCEPT !.pc = "jobs_lock"]
    /\ UNCHANGED <<tableVars, otherVars, lock, child>>

\* eval of Executable::NonBuiltin awaits run_command.
EvalNonBuiltin ==
    /\ main.pc = "eval" /\ main.cmd = "NonBuiltin"
    /\ main' = [main EXCEPT !.pc = "run"]
    /\ UNCHANGED <<tableVars, otherVars, lock, child>>

\* run_command after launch: with a child the launcher goes on to
\* job_list.add, without one it returns to the prompt.
Launch(r, fault) ==
    IF r.spawned
    THEN /\ \E p \in Procs : child[p].st = "none"
         /\ main' = [main EXCEPT !.pc = "add_lock", !.cur = NextProc,
                                 !.fault = fault, !.out = r.report]
         /\ child' = [child EXCEPT ![NextProc] =
                         [NoChild EXCEPT !.st = "running",
                                         !.state = main.state,
                                         !.cmdline = main.cmdline]]
         /\ UNCHANGED <<tableVars, otherVars, lock>>
    ELSE /\ main' = [Idle("prompt") EXCEPT !.fault = fault, !.out = r.report]
         /\ UNCHANGED <<tableVars, otherVars, lock, child>>

\* run_command: File::create of a redirect fails; report and return.
OpenFail ==
    /\ main.pc = "run"
    /\ \E infile \in Redirects, outfile \in Redirects, os \in Answers :
          /\ open_fails(infile, outfile, os)
          /\ Launch(launch(main.command, infile, outfile, os), "open")

\* run_command: spawn fails; report and return.
SpawnFail ==
    /\ main.pc = "run"
    /\ \E infile \in Redirects, outfile \in Redirects, os \in Answers :
          /\ ~open_fails(infile, outfile, os)
          /\ ~os.spawn_ok
          /\ Launch(launch(main.command, infile, outfile, os), "spawn")

\* run_command: spawn succeeds; the launcher goes on to job_list.add.
SpawnOk ==
    /\ main.pc = "run"
    /\ \E infile \in Redirects, outfile \in Redirects, os \in Answers :
          /\ ~open_fails(infile, outfile, os)
          /\ os.spawn_ok
          /\ Launch(launch(main.command, infile, outfile, os), "")

\* The main task takes the mutex at the start of a table operation.
MainAcquire ==
    /\ main.pc \in {"add_lock", "fg_delete_lock", "bg_lookup_lock", "jobs_lock"}
    /\ can_lock(lock)
    /\ lock' = Some(MainTask)
    /\ main' = [main EXCEPT !.pc = locked_pc(main.pc)]
    /\ UNCHANGED <<tableVars, otherVars, child>>

\* job_list.add(pid, data.state, data.cmdline) and the match on its result.
MainAdd ==
    /\ main.pc = "add"
    /\ LET p == main.cur
           r == add(table, p, main.state, main.cmdline)
           pc == after_add(main.state, r.ret)
       IN  /\ jobs' = r.jl.jobs
           /\ fg_job' = r.jl.fg_job
           /\ max_jid' = r.jl.max_jid
           /\ lock' = unlock(MainTask)
           /\ child' = [child EXCEPT
                 ![p].jid = IF r.ret.tag = "Ok" THEN Some(r.ret.jid) ELSE None,
                 ![p].regfail = (r.ret.tag = "Err")]
           /\ main' = IF pc = "prompt" THEN Idle("prompt")
                      ELSE [main EXCEPT !.pc = pc]
    /\ UNCHANGED otherVars

\* Foreground: child.wait().await returns.
FgWait ==
    /\ main.pc = "fg_wait"
    /\ wait_ready(child[main.cur].st)
    /\ child' = [child EXCEPT ![main.cur].st =
                    IF @ = "exited" THEN "reaped" ELSE @]
    /\ main' = [main EXCEPT !.pc = "fg_delete_lock"]
    /\ UNCHANGED <<tableVars, otherVars, lock>>

\* Foreground: job_list.delete(jid); run_command returns.
FgDelete ==
    /\ main.pc = "fg_delete"
    /\ LET p == main.cur
           r == delete(table, delete_arg(p, child[p].jid[1]))
       IN  /\ jobs' = r.jl.jobs
           /\ fg_job' = r.jl.fg_job
           /\ max_jid' = r.jl.max_jid
           /\ child' = [child EXCEPT ![p].dels = @ + 1,
                                     ![p].delret = Some(r.ret)]
    /\ lock' = unlock(MainTask)
    /\ main' = Idle("prompt")
    /\ UNCHANGED otherVars

\* Background: job_list.get_cmdline(jid).unwrap_or(String::new()).
BgLookup ==
    /\ main.pc = "bg_lookup"
    /\ LET p == main.cur IN
       child' = [child EXCEPT
                    ![p].lookup = Some(get_cmdline(table, child[p].jid[1]))]
    /\ lock' = unlock(MainTask)
    /\ main' = [main EXCEPT !.pc = "bg_task"]
    /\ UNCHANGED <<tableVars, otherVars>>

\* Background: task::spawn of the monitor; run_command returns.
BgSpawnTask ==
    /\ main.pc = "bg_task"
    /\ child' = [child EXCEPT ![main.cur].mon = "start"]
    /\ main' = Idle("prompt")
    /\ UNCHANGED <<tableVars, otherVars, lock>>

\* print_jobs under the lock: writes the rows, changes nothing.
ListJobs ==
    /\ main.pc = "jobs"
    /\ lock' = unlock(MainTask)
    /\ main' = Idle("prompt")
    /\ UNCHANGED <<tableVars, otherVars, child>>

\* add failed: child.kill().await.
Kill ==
    /\ main.pc = "kill"
    /\ \E st \in {"exited", "reaped"} :
          child' = [child EXCEPT ![main.cur].st = st]
    /\ main' = [main EXCEPT !.pc = "kill_wait"]
    /\ UNCHANGED <<tableVars, otherVars, lock>>

\* add failed: child.wait().await, then run_command returns.
KillWait ==
    /\ main.pc = "kill_wait"
    /\ child[main.cur].st \in {"exited", "reaped"}
    /\ child' = [child EXCEPT ![main.cur].st = "reaped"]
    /\ main' = Idle("prompt")
    /\ UNCHANGED <<tableVars, otherVars, lock>>

\* The monitor tasks live as long as the runtime, which run's return shuts
\* down.
Running(p) == main.pc # "exited" /\ child[p].mon \notin {"none", "done"}

\* Monitor: print!("[{jid}] ({pid}) {}", cmdline).
MonStart(p) ==
    /\ Running(p) /\ child[p].mon = "start"
    /\ child' = [child EXCEPT ![p].mon = mon_next(@),
                              ![p].start_row = Some(OwnRow(table, child[p], p))]
    /\ UNCHANGED <<tableVars, otherVars, lock, main>>

\* Monitor: child.wait().await returns.
MonWait(p) ==
    /\ Running(p) /\ child[p].mon = "wait"
    /\ wait_ready(child[p].st)
    /\ child' = [child EXCEPT ![p].mon = mon_next(@),
                              ![p].st = IF @ = "exited" THEN "reaped" ELSE @]
    /\ UNCHANGED <<tableVars, otherVars, lock, main>>

\* Monitor: takes the mutex at the start of job_list.delete.
MonAcquire(p) ==
    /\ Running(p) /\ child[p].mon = "del_lock"
    /\ can_lock(lock)
    /\ lock' = Some(p)
    /\ child' = [child EXCEPT ![p].mon = mon_next(@)]
    /\ UNCHANGED <<tableVars, otherVars, main>>

\* Monitor: job_list.delete(jid).
MonDelete(p) ==
    /\ Running(p) /\ child[p].mon = "del"
    /\ LET r == delete(table, delete_arg(p, child[p].jid[1]))
       IN  /\ jobs' = r.jl.jobs
           /\ fg_job' = r.jl.fg_job
           /\ max_jid' = r.jl.max_jid
           /\ child' = [child EXCEPT ![p].mon = mon_next(@),
                                     ![p].dels = @ + 1,
                                     ![p].delret = Some(r.ret)]
    /\ lock' = unlock(p)
    /\ UNCHANGED <<otherVars, main>>

\* Monitor: println!("\nJob [{jid}] ({pid}) terminated").
MonTerm(p) ==
    /\ Running(p) /\ child[p].mon = "term"
    /\ child' = [child EXCEPT ![p].mon = mon_next(@),
                              ![p].term_row = Some(OwnRow(table, child[p], p))]
    /\ UNCHANGED <<tableVars, otherVars, lock, main>>

\* The process of a spawned command exits.
ChildExit(p) ==
    /\ child[p].st = "running"
    /\ child' = [child EXCEPT ![p].st = "exited"]
    /\ UNCHANGED <<tableVars, otherVars, lock, main>>

\* The steps of the main task on the path of a Foreground job, and of the
\* monitor of process p.
MainStep ==
    \/ ReadEOF \/ ReadLine \/ ReadCommand
    \/ EvalExit \/ EvalNoop \/ EvalJobs \/ EvalNonBuiltin
    \/ OpenFail \/ SpawnFail \/ SpawnOk
    \/ MainAcquire \/ MainAdd \/ FgWait \/ FgDelete
    \/ BgLookup \/ BgSpawnTask \/ ListJobs

MonStep(p) ==
    \/ MonStart(p) \/ MonWait(p) \/ MonAcquire(p) \/ MonDelete(p) \/ MonTerm(p)

NextShell ==
    \/ MainStep
    \/ \E p \in Procs : MonStep(p)
    \/ \E p \in Procs : ChildExit(p)

NextLaunch == NextShell \/ Kill \/ KillWait

SpecShell == InitShell /\ [][NextShell]_vars

SpecLaunch == InitLaunch /\ [][NextLaunch]_vars


\* ---------------------------------------------- the table under the mutex
\* Tasks that call the table operations concurrently.  Each operation is
\* run statement by statement; it takes the mutex first and gives it back
\* when it returns.
Tasks == 1..NumTasks

\* A task that is not inside a table operation.
NoOp == [pc |-> "idle", op |-> "", pid |-> 0, state |-> BG, cmdline |-> "",
         jid |-> 0, found |-> FALSE, ret |-> None, pre |-> JobList_new]

InitConc ==
    /\ jobs = JobList_new.jobs
    /\ fg_job = JobList_new.fg_job
    /\ max_jid = JobList_new.max_jid
    /\ last = NoCall
    /\ prev = Summary(NoCall)
    /\ lock = None
    /\ main = <<>>
    /\ child = <<>>
    /\ task = [t \in Tasks |-> NoOp]

\* add: lock the mutex and calculate the jid of the new job.
CallAdd(t) ==
    /\ task[t].pc = "idle"
    /\ can_lock(lock)
    /\ new_jid(max_jid) <= MaxJid
    /\ lock' = Some(t)
    /\ \E l \in Launched, state \in State :
          task' = [task EXCEPT ![t] =
                      [NoOp EXCEPT !.pc = "add_fg", !.op = "add",
                                   !.pid = l[1], !.state = state,
                                   !.cmdline = l[2],
                                   !.jid = new_jid(max_jid), !.pre = table]]
    /\ UNCHANGED <<tableVars, callVars, main, child>>

\* add: "Update foreground".
AddFg(t) ==
    /\ task[t].pc = "add_fg"
    /\ IF task[t].state = FG
       THEN IF fg_job # None
            THEN /\ task' = [task EXCEPT ![t].pc = "ret",
                                         ![t].ret = Err(ErrForeground)]
                 /\ UNCHANGED fg_job
            ELSE /\ fg_job' = Some(task[t].jid)
                 /\ task' = [task EXCEPT ![t].pc = "add_max"]
       ELSE /\ task' = [task EXCEPT ![t].pc = "add_max"]
            /\ UNCHANGED fg_job
    /\ UNCHANGED <<jobs, max_jid, callVars, lock, main, child>>

\* add: "update the max jid in the list".
AddMax(t) ==
    /\ task[t].pc = "add_max"
    /\ max_jid' = Some(task[t].jid)
    /\ task' = [task EXCEPT ![t].pc = "add_insert"]
    /\ UNCHANGED <<jobs, fg_job, callVars, lock, main, child>>

\* add: create the job, insert it, "throw error if insert triggers an
\* override".
AddInsert(t) ==
    /\ task[t].pc = "add_insert"
    /\ jobs' = insert(jobs, task[t].jid,
                      Job(task[t].pid, task[t].state, task[t].cmdline))
    /\ task' = [task EXCEPT ![t].pc = "ret",
                            ![t].ret = IF task[t].jid \in DOMAIN jobs
                                       THEN Err(ErrDuplicate)
                                       ELSE Ok(task[t].jid)]
    /\ UNCHANGED <<fg_job, max_jid, callVars, lock, main, child>>

\* delete: lock the mutex.
CallDelete(t) ==
    /\ task[t].pc = "idle"
    /\ can_lock(lock)
    /\ lock' = Some(t)
    /\ \E jid \in Jids :
          task' = [task EXCEPT ![t] =
                      [NoOp EXCEPT !.pc = "del_remove", !.op = "delete",
                                   !.jid = jid, !.pre = table]]
    /\ UNCHANGED <<tableVars, callVars, main, child>>

\* delete: "remove from job list".
DelRemove(t) ==
    /\ task[t].pc = "del_remove"
    /\ jobs' = remove(jobs, task[t].jid)
    /\ task' = [task EXCEPT ![t].pc = "del_max",
                            ![t].found = (get(jobs, task[t].jid) # None)]
    /\ UNCHANGED <<fg_job, max_jid, callVars, lock, main, child>>

\* delete: "update max jid".
DelMax(t) ==
    /\ task[t].pc = "del_max"
    /\ max_jid' = IF max_jid # None /\ max_jid[1] = task[t].jid
                  THEN keys_max(jobs) ELSE max_jid
    /\ task' = [task EXCEPT ![t].pc = "del_fg"]
    /\ UNCHANGED <<jobs, fg_job, callVars, lock, main, child>>

\* delete: "update foreground job" and the return value.
DelFg(t) ==
    /\ task[t].pc = "del_fg"
    /\ fg_job' = IF fg_job # None /\ fg_job[1] = task[t].jid
                 THEN None ELSE fg_job
    /\ task' = [task EXCEPT ![t].pc = "ret", ![t].ret = task[t].found]
    /\ UNCHANGED <<jobs, max_jid, callVars, lock, main, child>>

\* get_state / get_pid / get_cmdline: lock the mutex.
CallLookup(t) ==
    /\ task[t].pc = "idle"
    /\ can_lock(lock)
    /\ lock' = Some(t)
    /\ \E op \in Lookups, jid \in Jids :
          task' = [task EXCEPT ![t] =
                      [NoOp EXCEPT !.pc = "get", !.op = op, !.jid = jid,
                                   !.pre = table]]
    /\ UNCHANGED <<tableVars, callVars, main, child>>

\* get_state / get_pid / get_cmdline: jobs.get(&jid) and the field.
Lookup(t) ==
    /\ task[t].pc = "get"
    /\ LET r == lookup_call(task[t].op, table, task[t].jid) IN
          /\ jobs' = r.jl.jobs
          /\ fg_job' = r.jl.fg_job
          /\ max_jid' = r.jl.max_jid
          /\ task' = [task EXCEPT ![t].pc = "ret", ![t].ret = r.ret]
    /\ UNCHANGED <<callVars, lock, main, child>>

\* print_jobs: lock the mutex.
CallList(t) ==
    /\ task[t].pc = "idle"
    /\ can_lock(lock)
    /\ lock' = Some(t)
    /\ task' = [task EXCEPT ![t] =
                   [NoOp EXCEPT !.pc = "list", !.op = "list", !.pre = table]]
    /\ UNCHANGED <<tableVars, callVars, main, child>>

\* print_jobs: the loop over jobs.iter().
List(t) ==
    /\ task[t].pc = "list"
    /\ LET r == print_call(table) IN
          /\ jobs' = r.jl.jobs
          /\ fg_job' = r.jl.fg_job
          /\ max_jid' = r.jl.max_jid
          /\ task' = [task EXCEPT ![t].pc = "ret", ![t].ret = r.ret]
    /\ UNCHANGED <<callVars, lock, main, child>>

\* The operation returns and its MutexGuard is dropped.
Return(t) ==
    /\ task[t].pc = "ret"
    /\ lock' = unlock(t)
    /\ task' = [task EXCEPT ![t] = NoOp]
    /\ UNCHANGED <<tableVars, callVars, main, child>>

NextConc ==
    \E t \in Tasks :
        \/ CallAdd(t) \/ AddFg(t) \/ AddMax(t) \/ AddInsert(t)
        \/ CallDelete(t) \/ DelRemove(t) \/ DelMax(t) \/ DelFg(t)
        \/ CallLookup(t) \/ Lookup(t)
        \/ CallList(t) \/ List(t)
        \/ Return(t)

SpecConc == InitConc /\ [][NextConc]_vars

\* ------------------------------------------- the fixed-capacity job list
\* src/src/job_list.rs: the variant of the job list that keeps its jobs in
\* an array of MAXJOBS slots.  A slot whose state is NT holds no job.  The
\* source sets MAXJOBS to 64; the model scales the capacity down, and every
\* statement about it is made relative to MAXJOBS.
MAXJOBS == 3

ST == "ST"
NT == "NT"

\* enum State of job_list.rs
SlotState == {BG, FG, ST, NT}

Slots == 0..(MAXJOBS - 1)

\* Arguments a caller may pass as a jid: every slot and one index too far.
SlotArgs == 0..MAXJOBS

ErrInvalid == "Invalid state for new job"
ErrTooMany == "Too many jobs"

\* JobList::new: every slot empty.
fixed_new == JobData([j \in Slots |-> Job(0, NT, "")], None, None)

\* jobs.iter().rposition(|job| job.state != State::NT)
rposition(js) ==
    LET occ == {j \in DOMAIN js : js[j].state # NT} IN
    IF occ = {} THEN None
    ELSE Some(CHOOSE j \in occ : \A k \in occ : k <= j)

\* JobList::get
fixed_get(jl, jid) ==
    IF jid \notin DOMAIN jl.jobs THEN None
    ELSE IF jl.jobs[jid].state = NT THEN None
    ELSE Some(jl.jobs[jid])

\* JobList::get_state
fixed_get_state(jl, jid) ==
    IF fixed_get(jl, jid) = None THEN None
    ELSE Some(fixed_get(jl, jid)[1].state)

\* JobList::fg_job
fixed_fg_job(jl) == jl.fg_job

\* Variant of fixed_add: the capacity test is off by one (id + 2 >= MAXJOBS).
fixed_add_limit_early(jl, pid, state, cmdline) ==
    IF state = NT THEN [jl |-> jl, ret |-> Err(ErrInvalid)]
    ELSE IF jl.max_jid # None /\ jl.max_jid[1] + 2 >= MAXJOBS
    THEN [jl |-> jl, ret |-> Err(ErrTooMany)]
    ELSE LET jid == new_jid(jl.max_jid) IN
         IF state = FG /\ jl.fg_job # None
         THEN [jl |-> jl, ret |-> Err(ErrForeground)]
         ELSE [jl |-> JobData([jl.jobs EXCEPT ![jid] =
                                   Job(pid, state, cmdline)],
                              IF state = FG THEN Some(jid) ELSE jl.fg_job,
                              Some(jid)),
               ret |-> Ok(jid)]

\* JobList::add, statement after statement: reject NT, calculate the jid
\* (or "Too many jobs"), update foreground, update max_jid, refuse to
\* override an occupied slot, create the job.
fixed_add(jl, pid, state, cmdline) ==
    IF state = NT THEN [jl |-> jl, ret |-> Err(ErrInvalid)]
    ELSE IF jl.max_jid # None /\ jl.max_jid[1] + 1 >= MAXJOBS
    THEN [jl |-> jl, ret |-> Err(ErrTooMany)]
    ELSE LET jid == new_jid(jl.max_jid)
             f == IF state = FG THEN Some(jid) ELSE jl.fg_job
             m == Some(jid)
         IN  IF state = FG /\ jl.fg_job # None
             THEN [jl |-> jl, ret |-> Err(ErrForeground)]
             ELSE IF jl.jobs[jid].state # NT
             THEN [jl |-> JobData(jl.jobs, f, m), ret |-> Err(ErrDuplicate)]
             ELSE [jl |-> JobData([jl.jobs EXCEPT ![jid] =
                                       Job(pid, state, cmdline)], f, m),
                   ret |-> Ok(jid)]

\* JobList::delete: only the state of the slot is reset.
fixed_delete(jl, jid) ==
    IF jid >= MAXJOBS THEN [jl |-> jl, ret |-> FALSE]
    ELSE IF jl.jobs[jid].state = NT THEN [jl |-> jl, ret |-> FALSE]
    ELSE LET js == [jl.jobs EXCEPT ![jid].state = NT]
             m == IF jl.max_jid # None /\ jl.max_jid[1] = jid
                  THEN rposition(js) ELSE jl.max_jid
             f == IF jl.fg_job # None /\ jl.fg_job[1] = jid
                  THEN None ELSE jl.fg_job
         IN  [jl |-> JobData(js, f, m), ret |-> TRUE]

\* Variant of set_state: fg_job is not cleared when the foreground job gets
\* another state.
set_state_keep_fg(jl, jid, state) ==
    IF jid >= MAXJOBS \/ jl.jobs[jid].state = NT
    THEN [jl |-> jl, ret |-> FALSE]
    ELSE IF state = FG /\ jl.fg_job # None
    THEN [jl |-> jl, ret |-> jl.fg_job[1] = jid]
    ELSE [jl |-> JobData([jl.jobs EXCEPT ![jid].state = state],
                         IF state = FG THEN Some(jid) ELSE jl.fg_job,
                         jl.max_jid),
          ret |-> TRUE]

\* Variant of set_state: FG is applied without looking at fg_job.
set_state_no_fg_check(jl, jid, state) ==
    IF jid >= MAXJOBS \/ jl.jobs[jid].state = NT
    THEN [jl |-> jl, ret |-> FALSE]
    ELSE [jl |-> JobData([jl.jobs EXCEPT ![jid].state = state],
                         IF state = FG THEN Some(jid)
                         ELSE IF jl.jobs[jid].state = FG /\ state # FG
                         THEN None ELSE jl.fg_job,
                         jl.max_jid),
          ret |-> TRUE]

\* Variant of set_state: a foreground job that is sent to the background is
\* marked stopped.
set_state_demote_stops(jl, jid, state) ==
    IF jid >= MAXJOBS \/ jl.jobs[jid].state = NT
    THEN [jl |-> jl, ret |-> FALSE]
    ELSE IF state = FG /\ jl.fg_job # None
    THEN [jl |-> jl, ret |-> jl.fg_job[1] = jid]
    ELSE LET old == jl.jobs[jid].state
             f1 == IF state = FG THEN Some(jid) ELSE jl.fg_job
             f2 == IF state # old /\ old = FG THEN None ELSE f1
             new == IF old = FG /\ state = BG THEN ST ELSE state
         IN  [jl |-> JobData([jl.jobs EXCEPT ![jid].state = new],
                             f2, jl.max_jid),
              ret |-> TRUE]

\* JobList::set_state, statement after statement: check the jid, check FG
\* against fg_job, and when the state changes clear fg_job if the job was
\* the foreground job, then store the state.
set_state(jl, jid, state) ==
    IF jid >= MAXJOBS \/ jl.jobs[jid].state = NT
    THEN [jl |-> jl, ret |-> FALSE]
    ELSE IF state = FG /\ jl.fg_job # None
    THEN [jl |-> jl, ret |-> jl.fg_job[1] = jid]
    ELSE LET old == jl.jobs[jid].state
             f1 == IF state = FG THEN Some(jid) ELSE jl.fg_job
         IN  IF state # old
             THEN [jl |-> JobData([jl.jobs EXCEPT ![jid].state = state],
                                  IF old = FG THEN None ELSE f1,
                                  jl.max_jid),
                   ret |-> TRUE]
             ELSE [jl |-> JobData(jl.jobs, f1, jl.max_jid), ret |-> TRUE]

\* The latest call on the fixed-capacity list.  follows is the job the call
\* before it sent from the foreground to the background, if it did.
FixedNoCall == [op |-> "none", state |-> NT, jid |-> 0, ret |-> FALSE,
                pre |-> fixed_new, follows |-> None]

\* The job a call has sent from the foreground to the background.
Demoted(c) ==
    IF c.op = "set_state" /\ c.state = BG /\ c.ret = TRUE
         /\ c.pre.fg_job = Some(c.jid)
    THEN Some(c.jid) ELSE None

InitFixed ==
    /\ jobs = fixed_new.jobs
    /\ fg_job = fixed_new.fg_job
    /\ max_jid = fixed_new.max_jid
    /\ last = FixedNoCall
    /\ prev = Summary(NoCall)
    /\ lock = None
    /\ main = <<>>
    /\ child = <<>>
    /\ task = <<>>

\* list.add(pid, state, cmdline)
FixedAdd ==
    \E l \in Launched, state \in SlotState :
        LET r == fixed_add(table, l[1], state, l[2]) IN
        /\ jobs' = r.jl.jobs
        /\ fg_job' = r.jl.fg_job
        /\ max_jid' = r.jl.max_jid
        /\ last' = [op |-> "add", state |-> state, jid |-> 0, ret |-> r.ret,
                    pre |-> table, follows |-> Demoted(last)]
        /\ UNCHANGED <<prev, shellVars, task>>

\* list.delete(jid)
FixedDelete ==
    \E jid \in SlotArgs :
        LET r == fixed_delete(table, jid) IN
        /\ jobs' = r.jl.jobs
        /\ fg_job' = r.jl.fg_job
        /\ max_jid' = r.jl.max_jid
        /\ last' = [op |-> "delete", state |-> NT, jid |-> jid,
                    ret |-> r.ret, pre |-> table, follows |-> Demoted(last)]
        /\ UNCHANGED <<prev, shellVars, task>>

\* list.set_state(jid, state)
FixedSetState ==
    \E jid \in SlotArgs, state \in SlotState :
        LET r == set_state(table, jid, state) IN
        /\ jobs' = r.jl.jobs
        /\ fg_job' = r.jl.fg_job
        /\ max_jid' = r.jl.max_jid
        /\ last' = [op |-> "set_state", state |-> state, jid |-> jid,
                    ret |-> r.ret, pre |-> table, follows |-> Demoted(last)]
        /\ UNCHANGED <<prev, shellVars, task>>

NextFixed == FixedAdd \/ FixedDelete \/ FixedSetState

SpecFixed == InitFixed /\ [][NextFixed]_vars

\* ------------------------------------------------------------ App::parse
\* A command line is modelled after split_whitespace: the sequence of its
\* words.  The words a line is made of: ordinary words, the three operators
\* and the names parse matches on.  No word starts with a dash.
Words == {"cat", "a", "f", "<", ">", "&",
          "ls", "cd", "jobs", "exit", "spawn", "attack"}

\* Lines of at most MaxWords words.
MaxWords == 4

Lines == UNION {[1..n -> Words] : n \in 0..MaxWords}

\* Vec::last and Vec::get as Options (get with the index of the source).
vec_last(v) == IF Len(v) = 0 THEN None ELSE Some(v[Len(v)])
vec_get(v, i) == IF i < Len(v) THEN Some(v[i + 1]) ELSE None

\* iter().position(|x| x == &w): the index of the source, from 0.
position(v, w) ==
    LET hits == {i \in 1..Len(v) : v[i] = w} IN
    IF hits = {} THEN None
    ELSE Some((CHOOSE i \in hits : \A k \in hits : i <= k) - 1)

\* Vec::split_off(at): what the vector keeps and what is returned.
split_off(v, at) ==
    [keep |-> SubSeq(v, 1, at), off |-> SubSeq(v, at + 1, Len(v))]

\* An Executable; the fields a variant does not carry stay at their default.
Exe(tag) == [tag |-> tag, command |-> "", args |-> <<>>, state |-> FG,
             cmdline |-> <<>>, infile |-> None, outfile |-> None]

\* App::parse_ls for words that do not start with a dash: no flags.
parse_ls(input, outfile) ==
    [Exe("Ls") EXCEPT !.args = input, !.outfile = outfile]

\* App::parse, statement after statement.
parse(line) ==
    IF vec_get(line, 0) = Some("spawn")
    THEN [Exe("TempDebugSpawnEnemy") EXCEPT !.args = Tail(line)]
    ELSE IF vec_get(line, 0) = Some("attack")
    THEN [Exe("TempDebugAttackEnemy") EXCEPT !.args = Tail(line)]
    ELSE
    LET \* first check if this is a foreground or background job
        bg == vec_last(line) = Some("&")
        state == IF bg THEN BG ELSE FG
        input1 == IF bg THEN SubSeq(line, 1, Len(line) - 1) ELSE line
        \* Check for specified stdout and stdin
        lt == position(input1, "<")
        cut == split_off(input1, IF lt = None THEN 0 ELSE lt[1])
        infile == IF lt = None THEN None ELSE vec_last(cut.keep)
        input2 == IF lt = None THEN input1 ELSE Tail(cut.off)
        gt == position(input2, ">")
        out == split_off(input2, IF gt = None THEN 0 ELSE gt[1])
        outfile == IF gt = None THEN None ELSE vec_get(out.off, 1)
        input3 == IF gt = None THEN input2 ELSE out.keep
    IN  IF Len(input3) = 0 THEN Exe("Noop")
        ELSE LET x == Head(input3)
                 rest == Tail(input3)
             IN  CASE x = "ls" -> parse_ls(rest, outfile)
                   [] x = "cd" ->
                        IF Len(rest) > 1 THEN Exe("Noop")
                        ELSE [Exe("Cd") EXCEPT !.args = rest]
                   [] x = "jobs" -> [Exe("Jobs") EXCEPT !.outfile = outfile]
                   [] x = "exit" -> Exe("Exit")
                   [] OTHER ->
                        [Exe("NonBuiltin") EXCEPT
                            !.command = x, !.args = rest, !.state = state,
                            !.cmdline = line, !.infile = infile,
                            !.outfile = outfile]

\* App::run has read a line into input_buffer.
InitParse ==
    /\ jobs = JobList_new.jobs
    /\ fg_job = JobList_new.fg_job
    /\ max_jid = JobList_new.max_jid
    /\ last = NoCall
    /\ prev = Summary(NoCall)
    /\ lock = None
    /\ main \in {[pc |-> "read", input |-> l, exe |-> Exe("Noop")] : l \in Lines}
    /\ child = <<>>
    /\ task = <<>>

\* let command = Self::parse(&input_buffer)
Parse ==
    /\ main.pc = "read"
    /\ main' = [main EXCEPT !.pc = "parsed", !.exe = parse(main.input)]
    /\ UNCHANGED <<tableVars, otherVars, lock, child>>

NextParse == Parse

SpecParse == InitParse /\ [][NextParse]_vars

\* ---------------------------------------------------------------- claims
\* Ids of the jobs of a table whose state is Foreground.
FgJobs(jl) == {j \in DOMAIN jl.jobs : jl.jobs[j].state = FG}

\* C1: after any sequence of add and delete calls at most one job has state
\* Foreground, and fg_job is Some(j) exactly when job j is in the table with
\* state Foreground (None when there is no Foreground job).
C1_ForegroundUnique ==
    /\ Cardinality(FgJobs(table)) <= 1
    /\ \A j \in Jids : (fg_job = Some(j)) <=> (j \in FgJobs(table))
    /\ (fg_job = None) <=> (FgJobs(table) = {})

C1_Witness ==
    /\ last.op = "delete" /\ last.found
    /\ prev.op = "add" /\ prev.ret.tag = "Ok"
    /\ fg_job # None
    /\ Cardinality(DOMAIN jobs) >= 2

\* C2: after any sequence of add and delete calls max_jid is the largest job
\* id present in the table, and is None exactly when the table is empty.
C2_WatermarkIsMax ==
    /\ (max_jid = None) <=> (DOMAIN jobs = {})
    /\ max_jid # None =>
          /\ max_jid[1] \in DOMAIN jobs
          /\ \A j \in DOMAIN jobs : j <= max_jid[1]

C2_Witness ==
    /\ last.op = "delete" /\ last.found
    /\ last.pre.max_jid = Some(last.jid)
    /\ max_jid # None
    /\ max_jid[1] < last.jid - 1

\* C3: add with state Foreground while a Foreground job is registered returns
\* the foreground-conflict error and leaves jobs, fg_job and max_jid as they
\* were, so the next successful add gets the id the watermark before the
\* failed call determines.
C3_ConflictNoMutation ==
    /\ (last.op = "add" /\ last.state = FG /\ FgJobs(last.pre) # {}) =>
          /\ last.ret = Err(ErrForeground)
          /\ table = last.pre
    /\ (/\ prev.op = "add" /\ prev.ret = Err(ErrForeground)
        /\ last.op = "add" /\ last.ret.tag = "Ok") =>
          last.ret.jid = (IF prev.premax = None THEN 0 ELSE prev.premax[1] + 1)

C3_Witness ==
    /\ prev.op = "add" /\ prev.ret = Err(ErrForeground)
    /\ last.op = "add" /\ last.ret = Ok(2)
    /\ DOMAIN jobs = {0, 1, 2}

\* C4: a successful add returns 0 on an empty table and watermark + 1
\* otherwise, sets the watermark to the returned id, and get_pid, get_state
\* and get_cmdline of that id give back the arguments of the call.
C4_AddResult ==
    (last.op = "add" /\ last.ret.tag = "Ok") =>
        /\ DOMAIN last.pre.jobs = {} => last.ret.jid = 0
        /\ last.pre.max_jid # None => last.ret.jid = last.pre.max_jid[1] + 1
        /\ max_jid = Some(last.ret.jid)
        /\ get_pid(table, last.ret.jid) = Some(last.pid)
        /\ get_state(table, last.ret.jid) = Some(last.state)
        /\ get_cmdline(table, last.ret.jid) = Some(last.cmdline)

C4_Witness ==
    /\ last.op = "add" /\ last.ret = Ok(3)
    /\ DOMAIN last.pre.jobs = {0, 2}
    /\ get_pid(table, 3) = Some(2)
    /\ get_cmdline(table, 3) = Some("two")

\* C5: in every reachable table the only error of add is the foreground
\* conflict: a Background add succeeds, a Foreground add succeeds exactly
\* when no Foreground job is registered, and the duplicate-jid error is
\* never returned.
C5_OnlyForegroundError ==
    /\ \A l \in Launched :
          /\ add(table, l[1], BG, l[2]).ret.tag = "Ok"
          /\ (add(table, l[1], FG, l[2]).ret.tag = "Ok")
                <=> (FgJobs(table) = {})
          /\ add(table, l[1], FG, l[2]).ret.err # ErrDuplicate
    /\ last.op = "add" =>
          /\ last.ret.err # ErrDuplicate
          /\ (last.ret.tag = "Err") <=>
                (last.state = FG /\ FgJobs(last.pre) # {})

C5_Witness ==
    /\ prev.op = "delete" /\ prev.found
    /\ last.op = "add" /\ last.state = BG /\ last.ret.tag = "Ok"
    /\ FgJobs(last.pre) # {}
    /\ last.ret.jid \in prev.predom

\* C6: add never allocates an id held by a job of the table: every job
\* present before an add is present afterwards with its pid, state and
\* command line, and the id a successful add returns was free.
C6_NoIdCollision ==
    last.op = "add" =>
        /\ \A j \in DOMAIN last.pre.jobs :
              j \in DOMAIN jobs /\ jobs[j] = last.pre.jobs[j]
        /\ last.ret.tag = "Ok" =>
              /\ last.ret.jid \notin DOMAIN last.pre.jobs
              /\ DOMAIN jobs = DOMAIN last.pre.jobs \cup {last.ret.jid}

C6_Witness ==
    /\ prev.op = "delete" /\ prev.found /\ prev.jid = 0
    /\ last.op = "add" /\ last.ret.tag = "Ok"
    /\ Cardinality(DOMAIN last.pre.jobs) >= 2
    /\ 0 \notin DOMAIN jobs

\* C7: with jobs at ids 0..n, deleting id n and then adding a job yields id
\* n again, while deleting an id below n and then adding a job yields n + 1.
C7_WatermarkReuse ==
    (/\ prev.op = "delete" /\ prev.found
     /\ prev.premax # None /\ prev.predom = 0..prev.premax[1]
     /\ last.op = "add" /\ last.ret.tag = "Ok") =>
        IF prev.jid = prev.premax[1]
        THEN last.ret.jid = prev.premax[1]
        ELSE last.ret.jid = prev.premax[1] + 1

C7_Witness ==
    /\ prev.op = "delete" /\ prev.found
    /\ prev.predom = {0, 1, 2} /\ prev.jid = 2
    /\ last.op = "add" /\ last.ret = Ok(2)

\* C8: delete(jid) returns true exactly when a job with that id was present;
\* afterwards the three lookups of jid return None and every other job keeps
\* its id, pid, state and command line.
C8_DeleteResult ==
    last.op = "delete" =>
        /\ last.found <=> (last.jid \in DOMAIN last.pre.jobs)
        /\ get_state(table, last.jid) = None
        /\ get_pid(table, last.jid) = None
        /\ get_cmdline(table, last.jid) = None
        /\ DOMAIN jobs = DOMAIN last.pre.jobs \ {last.jid}
        /\ \A j \in DOMAIN last.pre.jobs \ {last.jid} :
              /\ get_pid(table, j) = get_pid(last.pre, j)
              /\ get_state(table, j) = get_state(last.pre, j)
              /\ get_cmdline(table, j) = get_cmdline(last.pre, j)

C8_Witness ==
    /\ last.op = "delete" /\ last.found /\ last.jid = 1
    /\ DOMAIN jobs = {0, 2}
    /\ jobs[0].pid # jobs[2].pid

\* C9: deleting the foreground job clears fg_job, so that an add with state
\* Foreground then succeeds; deleting any other id leaves fg_job unchanged.
C9_DeleteForeground ==
    last.op = "delete" =>
        IF last.pre.fg_job = Some(last.jid)
        THEN /\ fg_job = None
             /\ \A l \in Launched :
                   add(table, l[1], FG, l[2]).ret.tag = "Ok"
        ELSE fg_job = last.pre.fg_job

C9_Witness ==
    /\ last.op = "delete" /\ last.pre.fg_job = Some(last.jid)
    /\ fg_job = None
    /\ DOMAIN jobs # {}

\* C10: deleting an id that is not in the table returns false and leaves
\* jobs, fg_job and max_jid unchanged; deleting the same id twice in a row
\* returns true then false and the second call changes nothing.
C10_DeleteAbsent ==
    /\ (last.op = "delete" /\ last.jid \notin DOMAIN last.pre.jobs) =>
          /\ ~last.found
          /\ table = last.pre
    /\ (prev.op = "delete" /\ last.op = "delete" /\ prev.jid = last.jid) =>
          /\ prev.found <=> (prev.jid \in prev.predom)
          /\ ~last.found
          /\ table = last.pre

C10_Witness ==
    /\ prev.op = "delete" /\ prev.found
    /\ last.op = "delete" /\ last.jid = prev.jid /\ ~last.found
    /\ fg_job # None
    /\ max_jid # None

\* A table no operation is in the middle of: fg_job and max_jid agree with
\* jobs.
Settled(jl) ==
    /\ Cardinality(FgJobs(jl)) <= 1
    /\ (jl.fg_job = None) <=> (FgJobs(jl) = {})
    /\ jl.fg_job # None => FgJobs(jl) = {jl.fg_job[1]}
    /\ (jl.max_jid = None) <=> (DOMAIN jl.jobs = {})
    /\ jl.max_jid # None =>
          /\ jl.max_jid[1] \in DOMAIN jl.jobs
          /\ \A j \in DOMAIN jl.jobs : j <= jl.max_jid[1]

\* What an operation run alone on table jl leaves and returns.
Sequential(c, jl) ==
    CASE c.op = "add" -> add(jl, c.pid, c.state, c.cmdline)
      [] c.op = "delete" -> delete(jl, c.jid)
      [] c.op \in Lookups -> [jl |-> jl, ret |-> lookup(c.op, jl, c.jid)]
      [] c.op = "list" -> [jl |-> jl, ret |-> print_jobs(jl)]

\* C11: each table operation takes effect atomically under the mutex: the
\* table an operation starts from is never one another operation has partly
\* applied, at most one task is inside an operation, and an operation that
\* returns leaves the table and returns the value it would have run alone
\* on the table it started from, so the history is the sequence of the
\* operations in the order they took the lock.
C11_Atomic ==
    /\ lock = None => Settled(table)
    /\ \A t \in Tasks : task[t].pc # "idle" =>
          /\ lock = Some(t)
          /\ Settled(task[t].pre)
    /\ \A t \in Tasks : task[t].pc = "ret" =>
          [jl |-> table, ret |-> task[t].ret] = Sequential(task[t], task[t].pre)

C11_Witness ==
    \E t, u \in Tasks :
        /\ t # u
        /\ task[t].pc = "add_insert" /\ task[t].state = FG
        /\ fg_job = Some(task[t].jid) /\ task[t].jid \notin DOMAIN jobs
        /\ task[u].pc = "idle"
        /\ DOMAIN jobs # {}

\* Fair scheduling of the tasks: a task that can run a step eventually runs
\* it, and a task waiting for the mutex eventually gets it.  Reading input
\* and the exit of a process are not in the program's hands.
FairShell ==
    /\ SpecShell
    /\ WF_vars(MainAdd \/ FgWait \/ FgDelete \/ BgLookup \/ BgSpawnTask
               \/ ListJobs)
    /\ SF_vars(MainAcquire)
    /\ \A p \in Procs :
          /\ WF_vars(MonStart(p) \/ MonWait(p) \/ MonDelete(p) \/ MonTerm(p))
          /\ SF_vars(MonAcquire(p))

\* The row process p registered, as add stored it.
Registered(p) == Job(p, child[p].state, child[p].cmdline)

\* C12: with background jobs whose processes exit in any order, the delete
\* of each monitor removes the row of its own job and no other: a job whose
\* monitor has not yet deleted is in the table with its original pid, state
\* and command line, whatever other monitors have completed.
C12_IndependentCompletions ==
    \A p \in Procs :
        /\ (child[p].jid # None /\ child[p].dels = 0) =>
              /\ child[p].jid[1] \in DOMAIN jobs
              /\ jobs[child[p].jid[1]] = Registered(p)
        /\ child[p].dels > 0 =>
              /\ child[p].delret = Some(TRUE)
              /\ ~OwnRow(table, child[p], p)

C12_Witness ==
    /\ child[1].state = BG /\ child[2].state = BG
    /\ child[2].dels = 1 /\ child[2].mon = "done"
    /\ child[1].dels = 0 /\ child[1].mon = "wait"
    /\ jobs[child[1].jid[1]] = Registered(1)

\* C13: whenever the main loop is reading or dispatching a command, up to
\* the add of the launcher, the table holds no Foreground job, and that add
\* never fails.
C13_ForegroundSettled ==
    /\ main.pc \in {"prompt", "eval", "run", "add_lock", "add", "jobs_lock",
                    "jobs", "exited"} => FgJobs(table) = {}
    /\ main.pc # "kill"
    /\ \A p \in Procs : ~child[p].regfail

C13_Witness ==
    /\ main.pc = "eval" /\ main.cmd = "NonBuiltin" /\ main.state = FG
    /\ \E p \in Procs : child[p].state = FG /\ child[p].dels = 1
    /\ \E p \in Procs : child[p].state = BG /\ OwnRow(table, child[p], p)

\* C14: the launcher never waits for the process of a Background job: the
\* job is handed to a detached monitor and the main loop reads and
\* dispatches further commands while the job is in the table and its
\* process runs.
C14_BackgroundDetached ==
    /\ main.pc \in {"fg_wait", "fg_delete_lock", "fg_delete"} =>
          child[main.cur].state = FG
    /\ \A p \in Procs :
          (child[p].state = BG /\ child[p].jid # None /\ main.cur # p) =>
              child[p].mon # "none"

C14_Witness ==
    /\ main.pc = "eval"
    /\ child[1].state = BG /\ child[1].st = "running"
    /\ child[1].mon = "wait" /\ OwnRow(table, child[1], 1)
    /\ child[2].st # "none"

\* C15: when add fails after the child was spawned, the child has been
\* killed and waited for by the time run_command returns, and at no time is
\* there a row or a monitor for that process.
C15_KillAndReap ==
    \A p \in Procs :
        child[p].regfail =>
            /\ main.cur # p => child[p].st = "reaped"
            /\ child[p].mon = "none"
            /\ child[p].jid = None
            /\ \A j \in DOMAIN jobs : jobs[j].pid # p

C15_Witness ==
    /\ main.pc = "prompt"
    /\ \E p \in Procs : child[p].regfail /\ child[p].st = "reaped"

\* C16 as stated: every row belongs to a spawned process whose exit its
\* monitor has not yet observed (its wait has not returned).
C16_Original ==
    \A j \in DOMAIN jobs :
        \E p \in Procs :
            /\ jobs[j].pid = p
            /\ child[p].st \in {"running", "exited"}

\* C16 amended: every row belongs to a spawned process whose monitor has not
\* yet executed its delete: a row is inserted only after spawn succeeded,
\* and a row is removed only after the wait on its process has returned.
C16_RowLifetime ==
    /\ \A j \in DOMAIN jobs :
          \E p \in Procs :
              /\ jobs[j].pid = p
              /\ child[p].jid = Some(j)
              /\ child[p].st # "none"
              /\ child[p].dels = 0
    /\ \A p \in Procs : child[p].dels > 0 => child[p].st = "reaped"

C16_Witness ==
    \E p \in Procs :
        /\ child[p].st = "reaped"
        /\ child[p].mon = "del_lock"
        /\ OwnRow(table, child[p], p)

\* C17: every registered job is deleted exactly once, by its own monitor,
\* and that delete returns true, also when freed ids are reused.
C17_DeletedOnce ==
    \A p \in Procs :
        /\ child[p].dels <= 1
        /\ child[p].dels = 1 => child[p].jid # None
        /\ child[p].delret # None => child[p].delret = Some(TRUE)
        /\ child[p].mon \in {"term", "done"} => child[p].dels = 1
        /\ (child[p].state = FG /\ child[p].jid # None /\ main.cur # p) =>
              child[p].dels = 1
        /\ (child[p].jid # None /\ child[p].dels = 0) =>
              OwnRow(table, child[p], p)

C17_Witness ==
    \E p, q \in Procs :
        /\ p < q
        /\ child[p].jid # None /\ child[p].jid = child[q].jid
        /\ child[p].delret = Some(TRUE) /\ child[q].delret = Some(TRUE)
        /\ child[q].state = BG

C19_NoLockAcrossWait ==
    /\ lock = Some(MainTask) =>
          main.pc \in {"add", "fg_delete", "bg_lookup", "jobs"}
    /\ \A p \in Procs : lock = Some(p) => child[p].mon = "del"
    /\ main.pc = "fg_wait" => lock # Some(MainTask)

C19_Witness ==
    /\ main.pc = "fg_wait"
    /\ child[main.cur].st = "running"
    /\ \E p \in Procs : lock = Some(p) /\ child[p].mon = "del"

\* C20 as stated: the lookup of the command line happens after the process
\* has exited, and the job's row is in the table when the termination
\* notice is printed.
C20_Original ==
    \A p \in Procs :
        /\ child[p].lookup # None => child[p].st \in {"exited", "reaped"}
        /\ child[p].term_row # None => child[p].term_row = Some(TRUE)

\* C20 amended: for a background job the command line is looked up right
\* after registration, before the monitor is spawned and the process
\* awaited; after the process has exited the monitor deletes the job and
\* then prints the termination notice, so the job's row is gone when the
\* notice is printed.
C20_MonitorOrder ==
    \A p \in Procs :
        /\ child[p].mon # "none" =>
              child[p].lookup = Some(Some(child[p].cmdline))
        /\ child[p].mon \in {"del_lock", "del", "term", "done"} =>
              child[p].st = "reaped"
        /\ child[p].term_row # None =>
              /\ child[p].term_row = Some(FALSE)
              /\ child[p].dels = 1

C20_Witness ==
    \E p \in Procs :
        /\ child[p].state = BG
        /\ child[p].lookup = Some(Some("two &"))
        /\ child[p].term_row = Some(FALSE)
        /\ child[p].mon = "done"

\* C21: when the open of a requested input or output redirect file fails,
\* the launcher reports the error and returns: it is back at the prompt, no
\* process was spawned and the job table is as it was.
C21_OpenFailureAborts ==
    [][main.pc = "run" /\ main'.fault = "open" =>
          /\ main'.out = ErrOpen
          /\ main'.pc = "prompt"
          /\ child' = child
          /\ UNCHANGED tableVars]_vars

\* A redirect failed to open while a background job of an earlier command
\* is in the table.
C21_Witness ==
    /\ main.pc = "prompt" /\ main.fault = "open"
    /\ DOMAIN jobs # {}

\* C22: when spawn fails the launcher reports "<command> errored" and
\* returns with the job table unchanged: no add, no delete, no monitor.
C22_SpawnFailureAborts ==
    [][main.pc = "run" /\ main'.fault = "spawn" =>
          /\ main'.out = Errored(main.command)
          /\ main'.pc = "prompt"
          /\ child' = child
          /\ lock' = lock
          /\ UNCHANGED tableVars]_vars

\* A spawn failed while a background job of an earlier command is in the
\* table.
C22_Witness ==
    /\ main.pc = "prompt" /\ main.fault = "spawn"
    /\ main.out = Errored("two")
    /\ DOMAIN jobs # {}

\* C23: get_state, get_pid, get_cmdline and the jobs listing leave jobs,
\* fg_job and the watermark as they were, and a lookup returns None exactly
\* when no job with that id is in the table (otherwise the job's field).
C23_ReadOnly ==
    \A t \in Tasks :
        LET c == task[t] IN
        c.pc = "ret" =>
            /\ c.op \in Lookups \cup {"list"} => table = c.pre
            /\ c.op \in Lookups =>
                  /\ c.ret = None <=> c.jid \notin DOMAIN jobs
                  /\ c.ret # None =>
                        c.ret = Some(CASE c.op = "get_state" ->
                                              jobs[c.jid].state
                                       [] c.op = "get_pid" ->
                                              jobs[c.jid].pid
                                       [] c.op = "get_cmdline" ->
                                              jobs[c.jid].cmdline)
            /\ c.op = "list" => {row[1] : row \in c.ret} = DOMAIN jobs

\* A lookup returns None for an id below the watermark: the job it asks
\* for was in the table and has been deleted, others are still there.
C23_Witness ==
    \E t \in Tasks :
        /\ task[t].pc = "ret" /\ task[t].op = "get_cmdline"
        /\ task[t].ret = None
        /\ max_jid # None /\ task[t].jid < max_jid[1]

\* The watermark as a number, -1 when it is None.
Mark(m) == IF m = None THEN -1 ELSE m[1]

\* C24: the watermark decreases only in a delete of the job whose id is the
\* watermark; a successful add increases it by exactly 1 (to 0 from empty);
\* every other operation leaves it unchanged.
C24_WatermarkSteps ==
    LET before == last.pre.max_jid
        added == last.op = "add" /\ last.ret.tag = "Ok"
        top == last.op = "delete" /\ before = Some(last.jid)
    IN  /\ Mark(max_jid) < Mark(before) => top
        /\ added => Mark(max_jid) = Mark(before) + 1
        /\ ~added /\ ~top => max_jid = before

\* The delete of the watermark job lowered the watermark by more than one.
C24_Witness ==
    /\ last.op = "delete" /\ last.pre.max_jid = Some(last.jid)
    /\ max_jid # None
    /\ Mark(max_jid) < Mark(last.pre.max_jid) - 1

\* Slots of jl that hold a job whose state is FG.
FgSlots(jl) == {j \in DOMAIN jl.jobs : jl.jobs[j].state = FG}

\* C25 (fixed-capacity list): set_state(jid, FG) while a different job is
\* the foreground job returns false and changes no job's state and not
\* fg_job; set_state(fg, BG) on the foreground job clears fg_job; and a
\* set_state(other, FG) on another job right after that succeeds and makes
\* that job the foreground job.
C25_ForegroundHandOver ==
    last.op = "set_state" =>
        /\ (/\ last.state = FG
            /\ last.pre.fg_job # None
            /\ last.pre.fg_job # Some(last.jid))
              => last.ret = FALSE /\ table = last.pre
        /\ (last.state = BG /\ last.pre.fg_job = Some(last.jid))
              => /\ last.ret = TRUE
                 /\ fixed_fg_job(table) = None
                 /\ fixed_get_state(table, last.jid) = Some(BG)
        /\ (/\ last.state = FG
            /\ last.follows # None
            /\ last.follows # Some(last.jid)
            /\ fixed_get(last.pre, last.jid) # None)
              => /\ last.ret = TRUE
                 /\ fixed_fg_job(table) = Some(last.jid)
                 /\ fixed_get_state(table, last.jid) = Some(FG)
                 /\ \A j \in Slots \ {last.jid} : jobs[j] = last.pre.jobs[j]

\* The foreground job was sent to the background and the next call made
\* another job the foreground job.
C25_Witness ==
    /\ last.op = "set_state" /\ last.state = FG /\ last.ret = TRUE
    /\ last.follows # None /\ last.follows # Some(last.jid)
    /\ fixed_get_state(table, last.follows[1]) = Some(BG)
    /\ fixed_fg_job(table) = Some(last.jid)

\* C26 (fixed-capacity list): after any sequence of add, delete and
\* set_state calls at most one occupied slot has state FG, and fg_job() is
\* Some(j) exactly when slot j is occupied with state FG.
C26_FixedForegroundUnique ==
    /\ Cardinality(FgSlots(table)) <= 1
    /\ \A j \in Slots :
          fixed_fg_job(table) = Some(j) <=> fixed_get_state(table, j) = Some(FG)
    /\ fixed_fg_job(table) # None => fixed_fg_job(table)[1] \in Slots

\* set_state took the foreground job out of the foreground with a state
\* other than BG while another job is in the table.
C26_Witness ==
    /\ last.op = "set_state" /\ last.state \in {ST, NT} /\ last.ret = TRUE
    /\ last.pre.fg_job = Some(last.jid)
    /\ \E j \in Slots : fixed_get_state(table, j) = Some(BG)

\* C27 (fixed-capacity list): after any sequence of add, delete and
\* set_state calls max_jid is the index of the highest occupied slot, and is
\* None exactly when no slot is occupied.
C27_FixedWatermarkIsMax ==
    max_jid = rposition(jobs)

\* C28 (fixed-capacity list): set_state(jid, state) returns true exactly
\* when, after the call, the job with id jid has the given state.
C28_SetStateResult ==
    last.op = "set_state" =>
        (last.ret = TRUE <=> fixed_get_state(table, last.jid) = Some(last.state))

\* C29 as stated (fixed-capacity list): no job ever has state ST after any
\* sequence of add, delete and set_state calls.
C29_Original ==
    \A j \in Slots : fixed_get_state(table, j) # Some(ST)

\* C29 as amended: a job has state ST only if it had it before the latest
\* call or the latest call was an add or a set_state that was given ST for
\* this job; no operation produces ST from another state argument, and
\* delete never does.
C29_StopOnlyOnRequest ==
    \A j \in Slots :
        fixed_get_state(table, j) = Some(ST) =>
            \/ fixed_get_state(last.pre, j) = Some(ST)
            \/ /\ last.op = "add" /\ last.state = ST
               /\ last.ret = Ok(j)
            \/ /\ last.op = "set_state" /\ last.state = ST
               /\ last.jid = j /\ last.ret = TRUE

\* set_state(jid, ST) turned the foreground job into a stopped job.
C29_Witness ==
    /\ last.op = "set_state" /\ last.state = ST /\ last.ret = TRUE
    /\ last.pre.fg_job = Some(last.jid)
    /\ fixed_get_state(table, last.jid) = Some(ST)

\* C30 as stated (fixed-capacity list): add returns "Too many jobs" exactly
\* when the watermark is MAXJOBS - 1, and then, as for the rejection of
\* state NT, the table is left unchanged.
C30_Original ==
    last.op = "add" =>
        /\ last.ret = Err(ErrTooMany) <=> last.pre.max_jid = Some(MAXJOBS - 1)
        /\ last.ret \in {Err(ErrTooMany), Err(ErrInvalid)} => table = last.pre

\* C30 as amended: add with state NT returns "Invalid state for new job"
\* whatever the watermark; add with another state returns "Too many jobs"
\* exactly when the watermark is MAXJOBS - 1, however many slots below it
\* are free; in both cases the table is left unchanged.
C30_TooManyJobs ==
    last.op = "add" =>
        /\ last.ret = Err(ErrInvalid) <=> last.state = NT
        /\ last.ret = Err(ErrTooMany) <=>
              (last.state # NT /\ last.pre.max_jid = Some(MAXJOBS - 1))
        /\ last.ret \in {Err(ErrTooMany), Err(ErrInvalid)} => table = last.pre

\* "Too many jobs" with the top slot occupied and every slot below it free.
C30_Witness ==
    /\ last.op = "add" /\ last.ret = Err(ErrTooMany)
    /\ fixed_get(table, MAXJOBS - 1) # None
    /\ \A j \in Slots : j < MAXJOBS - 1 => fixed_get(table, j) = None

\* Words that are neither an operator nor a name parse matches on.
Plain == {"cat", "a", "f"}

\* A line of the form `cmd arg... < file`.
InputRedirectForm(l) ==
    /\ Len(l) >= 3
    /\ l[Len(l) - 1] = "<"
    /\ \A i \in 1..Len(l) : i # Len(l) - 1 => l[i] \in Plain

\* C31: for a command line of the form `cmd arg... < file`, parse yields a
\* non-builtin command whose executable is cmd, whose argument list is the
\* words between cmd and `<`, and whose input-redirect path is file.
C31_ParseInputRedirect ==
    (main.pc = "parsed" /\ InputRedirectForm(main.input)) =>
        LET l == main.input IN
        /\ main.exe.tag = "NonBuiltin"
        /\ main.exe.command = l[1]
        /\ main.exe.args = SubSeq(l, 2, Len(l) - 2)
        /\ main.exe.infile = Some(l[Len(l)])

\* Process p is not pending: it was never spawned, or it has exited and, if
\* its job was registered, the delete for the job has been executed.
Finished(p) ==
    /\ child[p].st \in {"none", "exited", "reaped"}
    /\ child[p].jid # None => child[p].dels >= 1

\* C32: whenever every spawned process has exited and every monitor has
\* finished its delete, the job table is empty, has no foreground job and no
\* watermark, and the add that follows returns id 0.
C32_EmptyWhenQuiet ==
    /\ []((\A p \in Procs : Finished(p)) => table = JobList_new)
    /\ [][(/\ main.pc = "add" /\ main'.pc # "add"
           /\ \A q \in Procs \ {main.cur} : Finished(q))
              => child'[main.cur].jid = Some(0)]_vars

\* A background job got id 0 and was deleted by its monitor, the job of the
\* next command got id 0 again and is deleted too: nothing is pending.
C32_Witness ==
    /\ child[1].state = BG /\ child[1].jid = Some(0) /\ child[1].dels = 1
    /\ child[2].jid = Some(0) /\ child[2].dels = 1
    /\ \A p \in Procs : Finished(p)

====
